---- MODULE Spec2Model ----
(***************************************************************************)
(* Model of src/app.py: the climbing-forecast dashboard.                   *)
(*                                                                         *)
(* Numbers are scaled integers:                                           *)
(*   - Fahrenheit temperatures are in tenths of a degree (68.0F = 680),    *)
(*   - Celsius temperatures are in half degrees (20.0C = 40),              *)
(*   - humidity is a whole percentage, precipitation whole millimetres,    *)
(*   - a timestamp t is [day, min]: calendar day number and minute of the  *)
(*     day, so t.hour is t.min \div 60,                                    *)
(*   - a temperature score is a numerator over TempDen, a humidity score a *)
(*     numerator over HumDen, a favorability a numerator over AlphaDen.    *)
(***************************************************************************)
EXTENDS Integers, Sequences, FiniteSets, TLC

VARIABLES
    pc,               \* position of the request / of the pipeline
    times, temps_f, hums, rain_mm,   \* one location's parallel sample lists
    alpha_map, day_metrics, rain_map, all_days,  \* daily_metrics_... result
    temp_branch,      \* per day: which branch of lines 89-101 was taken
    drawing,          \* what plot_location_forecast drew on its axis
    api_key,          \* whether OPENWEATHER_API_KEY is set
    loc,              \* index of the location the fetch loop is at
    all_data, all_times, max_temp_global,   \* locals of generate_dashboard_plot
    log,              \* names printed by the except clause (line 217)
    served,           \* the provider's responses so far, one per fetch
    axes,             \* one drawing per configured location
    response          \* what index() returned

vars == <<pc, times, temps_f, hums, rain_mm, alpha_map, day_metrics, rain_map,
          all_days, temp_branch, drawing, api_key, loc, all_data, all_times,
          max_temp_global, log, served, axes, response>>

aggVars == <<times, temps_f, hums, rain_mm, alpha_map, day_metrics, rain_map,
             all_days, temp_branch, drawing>>

dashVars == <<api_key, loc, all_data, all_times, max_temp_global, log, served,
              axes, response>>

----------------------------------------------------------------------------
\* Bounds of the model.

\* Longest sample list built for one location in SpecAgg.
MaxLen == 2
\* Calendar days are 1..MaxDay.
MaxDay == 2
\* SpecScore sweeps temperatures 0, 0.5, ..., MaxTempStep/2 degrees F.
MaxTempStep == 200
\* SpecScore sweeps humidities 0..MaxHum percent.
MaxHum == 100

----------------------------------------------------------------------------
\* Scales and small helpers.

\* n degrees Fahrenheit in tenths.
Deg(n) == n * 10

\* common denominator of the two ramps (60 - 40) and (80 - 69), in tenths
TempDen == (60 - 40) * (80 - 69) * 10
\* denominator of the humidity ramp (80 - 50)
HumDen == 80 - 50
AlphaDen == 10 * TempDen * HumDen

SetMax(S) == CHOOSE x \in S : \A y \in S : y <= x
SetMin(S) == CHOOSE x \in S : \A y \in S : x <= y
SeqMax(s) == SetMax({s[i] : i \in 1..Len(s)})

RECURSIVE SortedSeq(_)
SortedSeq(S) ==
    IF S = {} THEN <<>>
    ELSE LET m == SetMin(S) IN <<m>> \o SortedSeq(S \ {m})

\* Round n/d (d > 0) to the nearest integer, ties to even, as "%.0f" does.
RoundDiv(n, d) ==
    LET q == n \div d
        r == n % d
    IN  IF 2 * r < d THEN q
        ELSE IF 2 * r > d THEN q + 1
        ELSE IF q % 2 = 0 THEN q ELSE q + 1

\* datetime fields of a timestamp
Hour(t) == t.min \div 60
Date(t) == t.day
\* minutes since day 0, the order datetime values compare by
TimeNum(t) == t.day * 1440 + t.min

----------------------------------------------------------------------------
\* daily_metrics_and_alpha_with_rain (lines 57-115)

ZipLen(ts, tf, hs, rs) == SetMin({Len(ts), Len(tf), Len(hs), Len(rs)})

\* InWindow with the window closed at 16:00 (hour <= 16)
InWindow_closed(t) == 9 <= Hour(t) /\ Hour(t) <= 16

\* line 62
InWindow(t) == 9 <= Hour(t) /\ Hour(t) < 16

\* indexes the loop of lines 61-67 files under `day`
WindowIdx(ts, tf, hs, rs, day) ==
    {i \in 1..ZipLen(ts, tf, hs, rs) : InWindow(ts[i]) /\ Date(ts[i]) = day}

\* daily_temps[day], daily_humidity[day]: the filed values, in list order
WindowList(vals, idx) ==
    LET order == SortedSeq(idx) IN [k \in 1..Len(order) |-> vals[order[k]]]

daily_temps(ts, tf, hs, rs, day) == WindowList(tf, WindowIdx(ts, tf, hs, rs, day))
daily_humidity(ts, tf, hs, rs, day) == WindowList(hs, WindowIdx(ts, tf, hs, rs, day))

\* daily_rain[day]: starts at 0.0 (defaultdict(float)) and is raised by every
\* filed sample whose rain exceeds it (lines 66-67)
daily_rain(ts, tf, hs, rs, day) ==
    SetMax({0} \cup {rs[i] : i \in WindowIdx(ts, tf, hs, rs, day)})

\* line 69
AllDays(ts) == SortedSeq({Date(ts[i]) : i \in 1..Len(ts)})

\* TempBranch with the 40-60 ramp closed at 40 (40 <= max_temp)
TempBranch_incl40(max_temp) ==
    IF max_temp >= Deg(80) \/ max_temp <= Deg(32) THEN "cold_hot"
    ELSE IF Deg(60) <= max_temp /\ max_temp <= Deg(69) THEN "ideal"
    ELSE IF Deg(40) <= max_temp /\ max_temp < Deg(60) THEN "ramp_up"
    ELSE IF Deg(69) < max_temp /\ max_temp < Deg(80) THEN "ramp_down"
    ELSE "fallback"

\* lines 92-101: the branch the temperature chain takes
TempBranch(max_temp) ==
    IF max_temp >= Deg(80) \/ max_temp <= Deg(32) THEN "cold_hot"
    ELSE IF Deg(60) <= max_temp /\ max_temp <= Deg(69) THEN "ideal"
    ELSE IF Deg(40) < max_temp /\ max_temp < Deg(60) THEN "ramp_up"
    ELSE IF Deg(69) < max_temp /\ max_temp < Deg(80) THEN "ramp_down"
    ELSE "fallback"

\* temp_score with the 69-80 ramp divided by (60 - 40) instead of (80 - 69)
temp_score_wrong_ramp(max_temp) ==
    LET b == TempBranch(max_temp)
    IN  IF b = "cold_hot" THEN 0
        ELSE IF b = "ideal" THEN TempDen
        ELSE IF b = "ramp_up" THEN (max_temp - Deg(40)) * 11
        ELSE IF b = "ramp_down" THEN (Deg(80) - max_temp) * 11
        ELSE 0

\* lines 92-101: temp_score, as a numerator over TempDen
temp_score(max_temp) ==
    LET b == TempBranch(max_temp)
    IN  IF b = "cold_hot" THEN 0
        ELSE IF b = "ideal" THEN TempDen
        ELSE IF b = "ramp_up" THEN (max_temp - Deg(40)) * 11
        ELSE IF b = "ramp_down" THEN (Deg(80) - max_temp) * 20
        ELSE 0

\* hum_score without the max_hum <= 50 branch
hum_score_unclamped(max_hum) ==
    IF max_hum >= 80 THEN 0
    ELSE 80 - max_hum

\* lines 103-108: hum_score, as a numerator over HumDen
hum_score(max_hum) ==
    IF max_hum <= 50 THEN HumDen
    ELSE IF max_hum >= 80 THEN 0
    ELSE 80 - max_hum

\* lines 73-74, in tenths
min_alpha == 0
max_alpha == 8

\* lines 89-111: alpha, as a numerator over AlphaDen
Alpha(max_temp, max_hum, rain_amt) ==
    IF rain_amt > 0 THEN 0
    ELSE min_alpha * TempDen * HumDen
         + (max_alpha - min_alpha) * (temp_score(max_temp) * hum_score(max_hum))

\* lines 76-87: (max_temp, max_hum) of one day
DayMetrics(ts, tf, hs, rs, day) ==
    LET temps_day == daily_temps(ts, tf, hs, rs, day)
        hum_day == daily_humidity(ts, tf, hs, rs, day)
        idxs == {i \in 1..Len(ts) : Date(ts[i]) = day}
    IN  IF temps_day # <<>> /\ hum_day # <<>>
        THEN <<SeqMax(temps_day), SeqMax(hum_day)>>
        ELSE <<IF idxs # {} THEN SetMax({tf[i] : i \in idxs}) ELSE 0,
               IF idxs # {} THEN SetMax({hs[i] : i \in idxs}) ELSE 0>>

\* the whole function: its four results, and the branch taken per day
daily_metrics_and_alpha_with_rain(ts, tf, hs, rs) ==
    LET days == AllDays(ts)
        D == {days[k] : k \in 1..Len(days)}
        dm == [day \in D |-> DayMetrics(ts, tf, hs, rs, day)]
        rm == [day \in D |-> daily_rain(ts, tf, hs, rs, day)]
    IN  [alpha_map   |-> [day \in D |-> Alpha(dm[day][1], dm[day][2], rm[day])],
         day_metrics |-> dm,
         rain_map    |-> rm,
         all_days    |-> days,
         temp_branch |-> [day \in D |-> IF rm[day] > 0 THEN "rain"
                                        ELSE TempBranch(dm[day][1])]]

----------------------------------------------------------------------------
\* plot_location_forecast (lines 118-197)

\* has_post_noon_data with a strict comparison (t.time() > time(12, 0))
has_post_noon_data_strict(ts, day) ==
    \E i \in 1..Len(ts) : Date(ts[i]) = day /\ ts[i].min > 12 * 60

\* line 150
has_post_noon_data(ts, day) ==
    \E i \in 1..Len(ts) : Date(ts[i]) = day /\ ts[i].min >= 12 * 60

\* PlotAlpha without the incomplete-day override
PlotAlpha_no_override(ts, amap, day) ==
    IF day \in DOMAIN amap THEN amap[day] ELSE 0

\* line 153
PlotAlpha(ts, amap, day) ==
    IF ~has_post_noon_data(ts, day) THEN 0
    ELSE IF day \in DOMAIN amap THEN amap[day] ELSE 0

\* lines 154, 173: the stats line under the weekday
StatsLabel(ts, dmap, day) ==
    IF ~has_post_noon_data(ts, day) THEN [tbd |-> TRUE, T |-> 0, H |-> 0]
    ELSE LET m == IF day \in DOMAIN dmap THEN dmap[day] ELSE <<0, 0>>
         IN  [tbd |-> FALSE, T |-> RoundDiv(m[1], 10), H |-> m[2]]

\* line 156: rain_map.get(day, 0.0)
RainMm(rmap, day) == IF day \in DOMAIN rmap THEN rmap[day] ELSE 0

\* lines 157, 184: rain in hundredths of an inch, as "%.2f" prints it
RainInches(rmap, day) == RoundDiv(RainMm(rmap, day) * 1000, 254)

plot_location_forecast(ts, tf, hs, amap, dmap, rmap, days, loc_name, temp_ylim_max, x_min, x_max, show_xaxis) ==
    LET D == {days[k] : k \in 1..Len(days)}
        first_day == IF D # {} THEN SetMin(D) ELSE 0
        shown == D \ {first_day}
    IN  [kind       |-> "plot",
         title      |-> loc_name,
         temp_line  |-> tf,
         hum_line   |-> hs,
         ylim_top   |-> temp_ylim_max * 105,
         xlim       |-> <<x_min, x_max>>,
         show_xaxis |-> show_xaxis,
         separators |-> {day * 1440 : day \in shown}
                          \cup (IF D # {} THEN {(SetMax(D) + 1) * 1440} ELSE {}),
         bands      |-> [day \in {d \in shown : PlotAlpha(ts, amap, d) > 0}
                            |-> PlotAlpha(ts, amap, day)],
         weekdays   |-> [day \in shown |-> day % 7],
         stats      |-> [day \in shown |-> StatsLabel(ts, dmap, day)],
         rain_notes |-> [day \in {d \in shown : RainMm(rmap, d) > 0}
                            |-> RainInches(rmap, day)]]

----------------------------------------------------------------------------
\* The aggregation pipeline on one location's samples (SpecAgg, SpecScore).

Minutes == {539, 540, 719, 720, 959, 960}

\* (temperature, humidity, rain) of a sample
Profiles ==
    { [tf |-> Deg(68), h |-> 55, rain |-> 0],
      [tf |-> Deg(70), h |-> 50, rain |-> 0],
      [tf |-> Deg(70), h |-> 50, rain |-> 2],
      [tf |-> Deg(90), h |-> 85, rain |-> 0] }

NoDrawing == [kind |-> "blank"]

DashIdle ==
    /\ api_key = TRUE
    /\ loc = 0
    /\ all_data = <<>>
    /\ all_times = <<>>
    /\ max_temp_global = 0
    /\ log = <<>>
    /\ served = <<>>
    /\ axes = <<>>
    /\ response = "none"

InitAgg ==
    /\ pc = "samples"
    /\ times = <<>> /\ temps_f = <<>> /\ hums = <<>> /\ rain_mm = <<>>
    /\ alpha_map = <<>> /\ day_metrics = <<>> /\ rain_map = <<>>
    /\ all_days = <<>> /\ temp_branch = <<>>
    /\ drawing = NoDrawing
    /\ DashIdle

\* The provider's next entry, appended whatever its timestamp is: the lists
\* are never sorted nor tested for order.
AddSample ==
    /\ pc = "samples"
    /\ Len(times) < MaxLen
    /\ \E d \in 1..MaxDay, m \in Minutes, p \in Profiles :
         LET t == [day |-> d, min |-> m]
         IN  /\ times' = Append(times, t)
             /\ temps_f' = Append(temps_f, p.tf)
             /\ hums' = Append(hums, p.h)
             /\ rain_mm' = Append(rain_mm, p.rain)
    /\ UNCHANGED <<pc, alpha_map, day_metrics, rain_map, all_days, temp_branch,
                   drawing, dashVars>>

\* line 236, reached only for a location that has samples (line 233)
Aggregate ==
    /\ pc \in {"samples", "ready"}
    /\ times # <<>>
    /\ LET r == daily_metrics_and_alpha_with_rain(times, temps_f, hums, rain_mm)
       IN  /\ alpha_map' = r.alpha_map
           /\ day_metrics' = r.day_metrics
           /\ rain_map' = r.rain_map
           /\ all_days' = r.all_days
           /\ temp_branch' = r.temp_branch
    /\ pc' = "aggregated"
    /\ UNCHANGED <<times, temps_f, hums, rain_mm, drawing, dashVars>>

\* lines 229-230, 237-239, for a dashboard of this one location
Plot ==
    /\ pc = "aggregated"
    /\ drawing' = plot_location_forecast(times, temps_f, hums, alpha_map,
                      day_metrics, rain_map, all_days, "loc",
                      SetMax({0} \cup {temps_f[i] : i \in 1..Len(temps_f)}),
                      SetMin({TimeNum(times[i]) : i \in 1..Len(times)}) - 6 * 60,
                      SetMax({TimeNum(times[i]) : i \in 1..Len(times)}) + 1440,
                      TRUE)
    /\ pc' = "plotted"
    /\ UNCHANGED <<times, temps_f, hums, rain_mm, alpha_map, day_metrics,
                   rain_map, all_days, temp_branch, dashVars>>

NextAgg == AddSample \/ Aggregate \/ Plot

SpecAgg == InitAgg /\ [][NextAgg]_vars

\* One sample on a grid of temperatures, humidities and rain amounts.
InitScore ==
    /\ pc = "ready"
    /\ \E k \in 0..MaxTempStep, h \in 0..MaxHum, r \in {0, 2}, m \in {540, 720} :
         /\ times = <<[day |-> 1, min |-> m]>>
         /\ temps_f = <<5 * k>>
         /\ hums = <<h>>
         /\ rain_mm = <<r>>
    /\ alpha_map = <<>> /\ day_metrics = <<>> /\ rain_map = <<>>
    /\ all_days = <<>> /\ temp_branch = <<>>
    /\ drawing = NoDrawing
    /\ DashIdle

NextScore == Aggregate \/ Plot

SpecScore == InitScore /\ [][NextScore]_vars

----------------------------------------------------------------------------
\* The request: index and generate_dashboard_plot (lines 200-257).

\* lines 16-22
LOCATIONS == <<"Farley", "Rumney", "Merriam Woods", "The Gunks", "Hanging Mountain">>

\* A forecast entry: dt in minutes since day 0, temp in half degrees Celsius,
\* rain either absent or a dict with some of the keys "3h" and "1h".
Entry(dt, temp, humidity, has_rain, rain) ==
    [dt |-> dt, temp |-> temp, humidity |-> humidity,
     has_rain |-> has_rain, rain |-> rain]

NoVol == [k \in {} |-> 0]

\* What the provider may answer: an HTTP error status, a body without "list",
\* an empty list, and lists of entries.
Responses ==
    { [status |-> 500, has_list |-> FALSE, list |-> <<>>],
      [status |-> 200, has_list |-> FALSE, list |-> <<>>],
      [status |-> 200, has_list |-> TRUE, list |-> <<>>],
      [status |-> 200, has_list |-> TRUE, list |->
          <<Entry(1 * 1440 + 780, 40, 55, FALSE, NoVol)>>],
      [status |-> 200, has_list |-> TRUE, list |->
          <<Entry(1 * 1440 + 600, 40, 55, FALSE, NoVol),
            Entry(2 * 1440 + 780, 42, 50, TRUE, NoVol)>>],
      [status |-> 200, has_list |-> TRUE, list |->
          <<Entry(1 * 1440 + 780, 50, 48, FALSE, NoVol),
            Entry(2 * 1440 + 780, 40, 55, TRUE, ("3h" :> 2) @@ ("1h" :> 1)),
            Entry(3 * 1440 + 540, 42, 50, TRUE, ("1h" :> 1))>>] }

\* line 42
fromtimestamp(dt) == [day |-> dt \div 1440, min |-> dt % 1440]

\* lines 46-48
RainVol(entry) ==
    IF entry.has_rain
    THEN IF "3h" \in DOMAIN entry.rain THEN entry.rain["3h"]
         ELSE IF "1h" \in DOMAIN entry.rain THEN entry.rain["1h"]
         ELSE 0
    ELSE 0

\* lines 39-50
parse_forecast(data) ==
    [times   |-> [i \in 1..Len(data.list) |-> fromtimestamp(data.list[i].dt)],
     temps_c |-> [i \in 1..Len(data.list) |-> data.list[i].temp],
     hums    |-> [i \in 1..Len(data.list) |-> data.list[i].humidity],
     rain_mm |-> [i \in 1..Len(data.list) |-> RainVol(data.list[i])]]

\* lines 53-54: tc * 9 / 5 + 32, half degrees Celsius to tenths Fahrenheit
c_to_f_list(temps_c) == [i \in 1..Len(temps_c) |-> temps_c[i] * 9 + Deg(32)]

\* What lines 213-215 raise on a response: raise_for_status (line 35) on an
\* error status, data["list"] (line 41) on a body without the key.
Raised(resp) ==
    IF resp.status >= 400 THEN "HTTPError"
    ELSE IF ~resp.has_list THEN "KeyError"
    ELSE "none"

\* an except clause that catches the HTTP errors only
ExceptCatches_http_only(exc) == exc = "HTTPError"

\* line 216: `except Exception` catches every one of them
ExceptCatches(exc) == exc \in {"HTTPError", "KeyError"}

\* all_times = times instead of all_times.extend(times)
ExtendTimes_overwrite(at, ts) == ts

\* line 224
ExtendTimes(at, ts) == at \o ts

\* line 226
NothingToDraw(at) == at = <<>>

EmptySeries(name) ==
    [loc_name |-> name, times |-> <<>>, temps_f |-> <<>>, hums |-> <<>>,
     rain_mm |-> <<>>]

\* lines 212-215 when nothing is raised
Loaded(name, resp) ==
    LET p == parse_forecast(resp)
    IN  [loc_name |-> name, times |-> p.times, temps_f |-> c_to_f_list(p.temps_c),
         hums |-> p.hums, rain_mm |-> p.rain_mm]

Init ==
    /\ pc = "index"
    /\ api_key \in BOOLEAN
    /\ loc = 0
    /\ all_data = <<>>
    /\ all_times = <<>>
    /\ max_temp_global = 0
    /\ log = <<>>
    /\ served = <<>>
    /\ axes = <<>>
    /\ response = "none"
    /\ times = <<>> /\ temps_f = <<>> /\ hums = <<>> /\ rain_mm = <<>>
    /\ alpha_map = <<>> /\ day_metrics = <<>> /\ rain_map = <<>>
    /\ all_days = <<>> /\ temp_branch = <<>>
    /\ drawing = NoDrawing

\* lines 245-247, and lines 201-209 when the key is set
IndexStart ==
    /\ pc = "index"
    /\ IF ~api_key
       THEN /\ response' = "error_page"
            /\ pc' = "done"
            /\ UNCHANGED <<loc, axes>>
       ELSE /\ axes' = [i \in 1..Len(LOCATIONS) |-> NoDrawing]
            /\ loc' = 1
            /\ pc' = "fetch"
            /\ UNCHANGED response
    /\ UNCHANGED <<aggVars, api_key, all_data, all_times, max_temp_global, log,
                   served>>

\* one iteration of the loop of lines 211-224
FetchLocation ==
    /\ pc = "fetch"
    /\ \E resp \in Responses :
         LET exc == Raised(resp)
             name == LOCATIONS[loc]
         IN  /\ served' = Append(served, resp)
             /\ IF exc # "none" /\ ~ExceptCatches(exc)
                THEN \* the exception leaves generate_dashboard_plot and index
                     /\ response' = "server_error"
                     /\ pc' = "done"
                     /\ UNCHANGED <<loc, all_data, all_times, max_temp_global, log>>
                ELSE LET d == IF exc # "none" THEN EmptySeries(name)
                                              ELSE Loaded(name, resp)
                     IN  /\ log' = IF exc # "none" THEN Append(log, name) ELSE log
                         /\ all_data' = Append(all_data, d)
                         /\ max_temp_global' =
                              IF d.temps_f # <<>> /\ SeqMax(d.temps_f) > max_temp_global
                              THEN SeqMax(d.temps_f) ELSE max_temp_global
                         /\ all_times' = ExtendTimes(all_times, d.times)
                         /\ loc' = loc + 1
                         /\ pc' = IF loc = Len(LOCATIONS) THEN "render" ELSE "fetch"
                         /\ UNCHANGED response
    /\ UNCHANGED <<aggVars, api_key, axes>>

\* lines 232-239: what the render loop leaves on the axis of location i
RenderAxis(i, x_min, x_max) ==
    LET d == all_data[i]
    IN  IF d.times = <<>>
        THEN [kind |-> "empty", title |-> d.loc_name]
        ELSE LET r == daily_metrics_and_alpha_with_rain(d.times, d.temps_f,
                                                        d.hums, d.rain_mm)
             IN  plot_location_forecast(d.times, d.temps_f, d.hums, r.alpha_map,
                     r.day_metrics, r.rain_map, r.all_days, d.loc_name,
                     max_temp_global, x_min, x_max, i = Len(axes))

\* lines 226-242 and 250-257
Render ==
    /\ pc = "render"
    /\ IF NothingToDraw(all_times)
       THEN /\ response' = "no_data_page"
            /\ UNCHANGED axes
       ELSE LET nums == {TimeNum(all_times[k]) : k \in 1..Len(all_times)}
                x_min == SetMin(nums) - 6 * 60
                x_max == SetMax(nums) + 1440
            IN  /\ axes' = [i \in 1..Len(axes) |-> RenderAxis(i, x_min, x_max)]
                /\ response' = "image"
    /\ pc' = "done"
    /\ UNCHANGED <<aggVars, api_key, loc, all_data, all_times, max_temp_global,
                   log, served>>

Next == IndexStart \/ FetchLocation \/ Render

Spec == Init /\ [][Next]_vars

----------------------------------------------------------------------------
\* Properties of the aggregation pipeline.  Each is stated on the inputs
\* (times, temps_f, hums, rain_mm) in minutes of the day and tenths of a
\* degree, and on what the pipeline left in the state.

Aggregated == pc \in {"aggregated", "plotted"}

SamplesOf(day) == {i \in 1..Len(times) : times[i].day = day}
RainyDay(day) == \E i \in SamplesOf(day) : rain_mm[i] > 0
\* samples of the day at 09:00 or later and before 16:00
InWindowOf(day) == {i \in SamplesOf(day) : times[i].min >= 540 /\ times[i].min < 960}
\* the day has a sample at 12:00 or later
CompleteDay(day) == \E i \in SamplesOf(day) : times[i].min >= 720
FirstDay == SetMin({times[i].day : i \in 1..Len(times)})

\* C1: a day with a sample of precipitation > 0 at any time of day has
\* favorability 0.
C1_RainOverride ==
    Aggregated => \A day \in DOMAIN alpha_map : RainyDay(day) => alpha_map[day] = 0

\* C2: rain_map[day] is the maximum precipitation over all samples of the day.
C2_RainMapAllSamples ==
    Aggregated => \A day \in DOMAIN rain_map :
        rain_map[day] = SetMax({rain_mm[i] : i \in SamplesOf(day)})

\* C3 as stated: the alpha_map entry of a day with no sample at or after
\* 12:00 is 0.
C3_AlphaMapIncompleteZero ==
    Aggregated => \A day \in DOMAIN alpha_map :
        ~CompleteDay(day) => alpha_map[day] = 0

\* C3 amended: a day with no sample at or after 12:00 is never shaded by
\* plot_location_forecast, whatever its alpha_map entry is.
C3_IncompleteNeverShaded ==
    pc = "plotted" => \A day \in DOMAIN alpha_map :
        ~CompleteDay(day) => day \notin DOMAIN drawing.bands

C3_Witness ==
    /\ pc = "plotted"
    /\ \E day \in DOMAIN alpha_map :
         /\ day # FirstDay
         /\ ~CompleteDay(day)
         /\ InWindowOf(day) # {}
         /\ alpha_map[day] > 0
         /\ day \notin DOMAIN drawing.bands

\* C4: every favorability lies in [0, 0.8].
C4_AlphaInRange ==
    Aggregated => \A day \in DOMAIN alpha_map :
        /\ 0 <= alpha_map[day]
        /\ alpha_map[day] * 10 <= 8 * AlphaDen

C4_Witness ==
    /\ Aggregated
    /\ \E day \in DOMAIN alpha_map : alpha_map[day] * 10 = 8 * AlphaDen

\* C7: day_metrics[day] is the pair of maxima over the day's samples in
\* [09:00, 16:00) when there is one, and over all the day's samples otherwise.
C7_WindowMaxima ==
    Aggregated => \A day \in DOMAIN day_metrics :
        LET S == IF InWindowOf(day) # {} THEN InWindowOf(day) ELSE SamplesOf(day)
        IN  day_metrics[day] = <<SetMax({temps_f[i] : i \in S}),
                                 SetMax({hums[i] : i \in S})>>

C7_Witness ==
    /\ Aggregated
    /\ \E day \in DOMAIN day_metrics :
         /\ InWindowOf(day) # {}
         /\ \E i \in SamplesOf(day) :
              /\ times[i].min >= 960
              /\ temps_f[i] > day_metrics[day][1]

\* The temperature and humidity curves of C8, each as <<numerator, denominator>>.
TRef(t) ==
    CASE t <= 320 \/ t >= 800 -> <<0, 1>>
      [] t >= 600 /\ t <= 690 -> <<1, 1>>
      [] t > 400 /\ t < 600   -> <<t - 400, 200>>
      [] t > 690 /\ t < 800   -> <<800 - t, 110>>
      [] t > 320 /\ t <= 400  -> <<0, 1>>

HRef(h) ==
    CASE h <= 50 -> <<1, 1>>
      [] h >= 80 -> <<0, 1>>
      [] h > 50 /\ h < 80 -> <<80 - h, 30>>

\* C8: with counted precipitation 0, favorability = 0.8 * T(maxTemp) * H(maxHum).
C8_AlphaFormula ==
    Aggregated => \A day \in DOMAIN alpha_map :
        rain_map[day] = 0 =>
            LET T == TRef(day_metrics[day][1])
                H == HRef(day_metrics[day][2])
            IN  /\ (T[1] * TempDen) % T[2] = 0
                /\ (H[1] * HumDen) % H[2] = 0
                /\ alpha_map[day] =
                     8 * ((T[1] * TempDen) \div T[2]) * ((H[1] * HumDen) \div H[2])

\* 74.5F and 65%: both ramps at their midpoints, favorability 0.8 * 0.5 * 0.5
C8_Witness ==
    /\ Aggregated
    /\ \E day \in DOMAIN alpha_map :
         /\ rain_map[day] = 0
         /\ day_metrics[day] = <<745, 65>>
         /\ alpha_map[day] * 10 = 2 * AlphaDen

\* C9 as stated: the last else of the temperature chain is never taken.
C9_FallbackUnreachable ==
    Aggregated => \A day \in DOMAIN temp_branch : temp_branch[day] # "fallback"

\* C9 amended: the last else is taken exactly for a day without counted rain
\* whose max temperature is above 32F and at most 40F.
C9_FallbackExactly ==
    Aggregated => \A day \in DOMAIN temp_branch :
        temp_branch[day] = "fallback" <=>
            /\ rain_map[day] = 0
            /\ day_metrics[day][1] > 320
            /\ day_metrics[day][1] <= 400

C9_Witness ==
    /\ Aggregated
    /\ \E day \in DOMAIN temp_branch :
         /\ temp_branch[day] = "fallback"
         /\ day_metrics[day][1] = 400
         /\ alpha_map[day] = 0

\* C10: every day but the first is shaded iff it has a sample at or after
\* 12:00 and favorability > 0, with that favorability as opacity, and is
\* labelled "T: TBD, H: TBD" iff it has no sample at or after 12:00; the first
\* day gets neither band nor label.
C10_Shading ==
    pc = "plotted" =>
        /\ \A day \in DOMAIN alpha_map \ {FirstDay} :
             /\ day \in DOMAIN drawing.bands
                  <=> (CompleteDay(day) /\ alpha_map[day] > 0)
             /\ day \in DOMAIN drawing.bands
                  => drawing.bands[day] = alpha_map[day]
             /\ day \in DOMAIN drawing.stats
             /\ drawing.stats[day].tbd <=> ~CompleteDay(day)
        /\ FirstDay \notin DOMAIN drawing.bands
        /\ FirstDay \notin DOMAIN drawing.stats
        /\ FirstDay \notin DOMAIN drawing.weekdays

C10_Witness ==
    /\ pc = "plotted"
    /\ alpha_map[FirstDay] > 0
    /\ \E day \in DOMAIN alpha_map \ {FirstDay} :
         /\ CompleteDay(day)
         /\ day \in DOMAIN drawing.bands
         /\ drawing.bands[day] > 0
         /\ ~drawing.stats[day].tbd

----------------------------------------------------------------------------
\* Properties of the request, stated on the provider's responses (served) and
\* on what the request left behind.

RequestDone == pc = "done" /\ api_key

\* the fetch or the parse of this response raises
FailedLoad(resp) == resp.status # 200 \/ ~resp.has_list
HasSamples(i) == all_data[i].times # <<>>
EmptyBand(i) == [kind |-> "empty", title |-> LOCATIONS[i]]

\* the band of location i is drawn from the samples the provider served for it
DrawnFromOwnSeries(i) ==
    LET r == daily_metrics_and_alpha_with_rain(all_data[i].times,
                 all_data[i].temps_f, all_data[i].hums, all_data[i].rain_mm)
    IN  /\ axes[i].kind = "plot"
        /\ axes[i].title = LOCATIONS[i]
        /\ axes[i].temp_line =
             [k \in 1..Len(served[i].list) |-> served[i].list[k].temp * 9 + 320]
        /\ axes[i].hum_line =
             [k \in 1..Len(served[i].list) |-> served[i].list[k].humidity]
        /\ DOMAIN axes[i].stats =
             {served[i].list[k].dt \div 1440 : k \in 1..Len(served[i].list)}
                 \ {served[i].list[1].dt \div 1440}
        /\ \A day \in DOMAIN axes[i].bands : axes[i].bands[day] = r.alpha_map[day]
        /\ \A day \in DOMAIN axes[i].stats :
             ~axes[i].stats[day].tbd =>
                 axes[i].stats[day].H = r.day_metrics[day][2]

NoFailureEscapes ==
    /\ response # "server_error"
    /\ Len(served) = Len(LOCATIONS)
    /\ Len(all_data) = Len(LOCATIONS)
    /\ \A i \in 1..Len(LOCATIONS) :
         FailedLoad(served[i]) => all_data[i] = EmptySeries(LOCATIONS[i])

\* C5 as stated: no failure leaves the request, every failed location has an
\* empty series and an empty titled band, every other location is aggregated,
\* scored and drawn from its own series.
C5_FailureIsolation ==
    RequestDone =>
        /\ NoFailureEscapes
        /\ \A i \in 1..Len(LOCATIONS) :
             IF FailedLoad(served[i]) THEN axes[i] = EmptyBand(i)
             ELSE DrawnFromOwnSeries(i)

\* C5 amended: no failure leaves the request and every failed location has an
\* empty series; when some location has a sample, every location without
\* samples (failed or answered with an empty list) gets an empty titled band
\* and every location with samples is aggregated, scored and drawn from its
\* own series; when none has, nothing is drawn at all.
C5_FailureIsolationAmended ==
    RequestDone =>
        /\ NoFailureEscapes
        /\ IF \E i \in 1..Len(LOCATIONS) : HasSamples(i)
           THEN \A i \in 1..Len(LOCATIONS) :
                    IF HasSamples(i) THEN DrawnFromOwnSeries(i)
                    ELSE axes[i] = EmptyBand(i)
           ELSE \A i \in 1..Len(LOCATIONS) : axes[i] = NoDrawing

C5_Witness ==
    /\ RequestDone
    /\ response = "image"
    /\ \E i, j, k \in 1..Len(LOCATIONS) :
         /\ served[i].status # 200 /\ axes[i] = EmptyBand(i)
         /\ served[j].status = 200 /\ ~served[j].has_list /\ axes[j] = EmptyBand(j)
         /\ i < k /\ j < k
         /\ ~FailedLoad(served[k])
         /\ axes[k].kind = "plot"
         /\ DOMAIN axes[k].bands # {}

\* C6: the request ends in the no-data page, with nothing aggregated or drawn,
\* iff every location's series is empty after the fetch loop; otherwise it
\* returns the figure.
C6_NoDataIff ==
    RequestDone =>
        LET allEmpty == \A i \in 1..Len(LOCATIONS) :
                            ~FailedLoad(served[i]) => served[i].list = <<>>
        IN  /\ response = "no_data_page" <=> allEmpty
            /\ response = "image" <=> ~allEmpty
            /\ response = "no_data_page" =>
                 \A i \in 1..Len(LOCATIONS) : axes[i] = NoDrawing

C6_Witness ==
    /\ RequestDone
    /\ response = "no_data_page"
    /\ \E i, j \in 1..Len(LOCATIONS) :
         /\ FailedLoad(served[i])
         /\ ~FailedLoad(served[j]) /\ served[j].list = <<>>

====
